---------------------------- MODULE Spec2Model ----------------------------
(***************************************************************************)
(* A model of src/issue_to_hugo.py: the markdown transformation pipeline   *)
(* (code-region classifier, cover extractor, tag extractor, sanitizer,     *)
(* image localizer) and the batch driver that converts issues to content   *)
(* units on disk.                                                          *)
(*                                                                         *)
(* Text is a sequence of one-character strings.  Offsets are 0-based, as   *)
(* in the Python source: the character at offset p of s is s[p + 1].       *)
(***************************************************************************)
EXTENDS Integers, Sequences, FiniteSets, TLC

NL == "\n"
CR == "\r"
TAB == "\t"
DQ == "\""
SQ == "'"
\* The backtick: the parser accepts no backtick in a string literal.
BT == "BACKTICK"

\* None for a str-valued result: the code only ever tests it by truthiness.
None == <<>>

\* F(v), with v evaluated once before F is applied (a local variable of the
\* code: assigned once, read many times).
With(v, F(_)) == CHOOSE r \in {F(x) : x \in {v}} : TRUE

-----------------------------------------------------------------------------
(* Python string primitives                                                *)

At(s, p) == s[p + 1]

\* s[a:b]
Slice(s, a, b) == SubSeq(s, a + 1, b)

\* The least and the greatest element of a non-empty set of integers.
Min(S) == CHOOSE x \in S : \A y \in S : x <= y
Max(S) == CHOOSE x \in S : \A y \in S : y <= x

\* str.find(c, p) for a one-character c: the first offset >= p, or -1.
Find(s, c, p) ==
    LET hits == {q \in p..(Len(s) - 1) : At(s, q) = c}
    IN  IF hits = {} THEN -1 ELSE Min(hits)

\* The first offset >= p holding a character of the set cs, or Len(s).
FindAny(s, cs, p) ==
    LET hits == {q \in p..(Len(s) - 1) : At(s, q) \in cs}
    IN  IF hits = {} THEN Len(s) ELSE Min(hits)

UpperCase == <<"A", "B", "C", "D", "E", "F", "G", "H", "I", "J", "K", "L", "M",
               "N", "O", "P", "Q", "R", "S", "T", "U", "V", "W", "X", "Y", "Z">>
LowerCase == <<"a", "b", "c", "d", "e", "f", "g", "h", "i", "j", "k", "l", "m",
               "n", "o", "p", "q", "r", "s", "t", "u", "v", "w", "x", "y", "z">>
Digits == <<"0", "1", "2", "3", "4", "5", "6", "7", "8", "9">>

\* str.lower() of one character.
Lower(c) ==
    IF \E i \in 1..26 : UpperCase[i] = c
    THEN LowerCase[CHOOSE i \in 1..26 : UpperCase[i] = c]
    ELSE c

\* str.lower()
LowerStr(s) == [i \in 1..Len(s) |-> Lower(s[i])]

\* str(n) for n >= 0
RECURSIVE DecimalChars(_)
DecimalChars(n) ==
    IF n < 10 THEN <<Digits[n + 1]>>
    ELSE Append(DecimalChars(n \div 10), Digits[(n % 10) + 1])

\* re.IGNORECASE folds both sides; ic is whether the flag is given.
Fold(c, ic) == IF ic THEN Lower(c) ELSE c

\* The literal lit matches s at offset p.
StartsWithAt(s, lit, p, ic) ==
    /\ p + Len(lit) <= Len(s)
    /\ \A k \in 1..Len(lit) : Fold(s[p + k], ic) = lit[k]

\* Whether s has t as a substring (Python: t in s).
Contains(s, t) ==
    \E p \in 0..(Len(s) - Len(t)) : StartsWithAt(s, t, p, FALSE)

Whitespace == {" ", TAB, NL, CR}

lstrip(s) ==
    LET keep == {i \in 1..Len(s) : s[i] \notin Whitespace}
    IN  IF keep = {} THEN <<>> ELSE SubSeq(s, Min(keep), Len(s))

rstrip(s) ==
    LET keep == {i \in 1..Len(s) : s[i] \notin Whitespace}
    IN  IF keep = {} THEN <<>> ELSE SubSeq(s, 1, Max(keep))

strip(s) == rstrip(lstrip(s))

\* str.split('\n'): always at least one (possibly empty) line.
RECURSIVE split(_)
split(s) ==
    With(Find(s, NL, 0), LAMBDA q :
        IF q < 0 THEN <<s>>
        ELSE <<Slice(s, 0, q)>> \o split(Slice(s, q + 1, Len(s))))

\* '\n'.join(lines)
RECURSIVE join(_)
join(lines) ==
    IF lines = <<>> THEN <<>>
    ELSE IF Len(lines) = 1 THEN lines[1]
    ELSE lines[1] \o <<NL>> \o join(Tail(lines))

\* str.replace('\r\n', '\n')
RECURSIVE ReplaceCRLF(_)
ReplaceCRLF(s) ==
    LET hits == {q \in 0..(Len(s) - 2) : StartsWithAt(s, <<CR, NL>>, q, FALSE)}
    IN  IF hits = {} THEN s
        ELSE With(Min(hits), LAMBDA q :
                 Slice(s, 0, q) \o <<NL>>
                     \o ReplaceCRLF(Slice(s, q + 2, Len(s))))

-----------------------------------------------------------------------------
(* is_within_code_block (lines 39-71)                                      *)

Fence == <<BT, BT, BT>>

\* line.strip().startswith of three backticks
IsFenceLine(line) == StartsWithAt(strip(line), Fence, 0, FALSE)

\* re.finditer of BT [^BT]+ BT over line: the spans <<start, end>> (end exclusive).
RECURSIVE InlineSpansFrom(_, _)
InlineSpansFrom(line, p) ==
    With(Find(line, BT, p), LAMBDA q0 :
        IF q0 < 0 THEN <<>>
        ELSE With(Find(line, BT, q0 + 1), LAMBDA q :
                 IF q > q0 + 1
                 THEN <<(<<q0, q + 1>>)>> \o InlineSpansFrom(line, q + 1)
                 ELSE InlineSpansFrom(line, q0 + 1)))

InlineSpans(line) == InlineSpansFrom(line, 0)

\* The for loop of lines 49-69 from line k on, and the return of line 71.
\* in_inline_code is never assigned after line 46, so it is always False.
RECURSIVE ScanLines(_, _, _, _, _)
ScanLines(lines, k, in_code_block, char_count, position) ==
    IF k > Len(lines) THEN in_code_block
    ELSE LET line == lines[k]
             line_start == char_count
             line_end == char_count + Len(line) + 1
             spans == InlineSpans(line)
         IN  IF position >= line_start /\ position <= line_end /\ in_code_block
             THEN TRUE
             ELSE IF \E i \in 1..Len(spans) :
                        /\ position >= line_start + spans[i][1]
                        /\ position <= line_start + spans[i][2]
             THEN TRUE
             ELSE ScanLines(lines, k + 1,
                            IF IsFenceLine(line) THEN ~in_code_block
                                                 ELSE in_code_block,
                            line_end, position)

is_within_code_block(text, position) ==
    With(split(text), LAMBDA lines : ScanLines(lines, 1, FALSE, 0, position))

-----------------------------------------------------------------------------
(* The markdown image pattern of lines 75 and 153                          *)

Http == <<"h", "t", "t", "p", ":", "/", "/">>
Https == <<"h", "t", "t", "p", "s", ":", "/", "/">>

\* https?:\/\/ at offset p: the length matched, 0 when it does not match.
SchemeLen(s, p, ic) ==
    IF StartsWithAt(s, Https, p, ic) THEN Len(Https)
    ELSE IF StartsWithAt(s, Http, p, ic) THEN Len(Http)
    ELSE 0

NoMatch == [start |-> -1, end |-> -1, alt |-> <<>>, url |-> <<>>]

\* !\[([^\]]*?)\]\((https?:\/\/[^\)]+)\) anchored at offset p.
MdMatchAt(s, p, ic) ==
    IF ~StartsWithAt(s, <<"!", "[">>, p, FALSE) THEN NoMatch
    ELSE LET j == Find(s, "]", p + 2)
         IN  IF j < 0 \/ ~StartsWithAt(s, <<"(">>, j + 1, FALSE) THEN NoMatch
             ELSE LET n == SchemeLen(s, j + 2, ic)
                      k == Find(s, ")", j + 2 + n)
                  IN  IF n = 0 \/ k <= j + 2 + n THEN NoMatch
                      ELSE [start |-> p, end |-> k + 1,
                            alt |-> Slice(s, p + 2, j),
                            url |-> Slice(s, j + 2, k)]

\* re.finditer: leftmost non-overlapping matches, left to right.
RECURSIVE MdFindIterFrom(_, _, _)
MdFindIterFrom(s, p, ic) ==
    With(Find(s, "!", p), LAMBDA q :
        IF q < 0 THEN <<>>
        ELSE With(MdMatchAt(s, q, ic), LAMBDA m :
                 IF m.start >= 0 THEN <<m>> \o MdFindIterFrom(s, m.end, ic)
                 ELSE MdFindIterFrom(s, q + 1, ic)))

MdFindIter(s, ic) == MdFindIterFrom(s, 0, ic)

-----------------------------------------------------------------------------
(* extract_cover_image (lines 73-85)                                       *)

\* CoverLoop with line 83 lost: the cover is chosen and stays in the body.
CoverLoopKeepsBody(body, matches, i) ==
    LET outside == {k \in i..Len(matches) :
                       ~is_within_code_block(body, matches[k].start)}
    IN  [url |-> IF outside = {} THEN None ELSE matches[Min(outside)].url,
         body |-> body]

\* The for loop of lines 78-84 from match i on, and the return of line 85.
RECURSIVE CoverLoop(_, _, _)
CoverLoop(body, matches, i) ==
    IF i > Len(matches) THEN [url |-> None, body |-> body]
    ELSE LET match == matches[i]
         IN  IF ~is_within_code_block(body, match.start)
             THEN [url |-> match.url,
                   body |-> Slice(body, 0, match.start)
                            \o Slice(body, match.end, Len(body))]
             ELSE CoverLoop(body, matches, i + 1)

extract_cover_image(body) ==
    With(MdFindIter(body, FALSE), LAMBDA matches : CoverLoop(body, matches, 1))

-----------------------------------------------------------------------------
(* extract_tags_from_body (lines 210-237)                                  *)

\* \$(.+?)\$ anchored at the '$' at offset p: the offset of the closing
\* '$', or -1.  '.' matches no newline and takes at least one character.
TagEnd(line, p) ==
    LET q == Find(line, "$", p + 2)
        nl == Find(line, NL, p + 1)
    IN  IF q >= 0 /\ (nl < 0 \/ nl > q) THEN q ELSE -1

\* re.findall(r'\$(.+?)\$', line)
RECURSIVE FindAllTags(_, _)
FindAllTags(line, p) ==
    With(Find(line, "$", p), LAMBDA q0 :
        IF q0 < 0 THEN <<>>
        ELSE With(TagEnd(line, q0), LAMBDA q :
                 IF q >= 0
                 THEN <<Slice(line, q0 + 1, q)>> \o FindAllTags(line, q + 1)
                 ELSE FindAllTags(line, q0 + 1)))

\* [tag.strip() for tag in tags if tag.strip()]
RECURSIVE StripNonEmpty(_)
StripNonEmpty(ts) ==
    IF ts = <<>> THEN <<>>
    ELSE IF strip(Head(ts)) = <<>> THEN StripNonEmpty(Tail(ts))
    ELSE <<strip(Head(ts))>> \o StripNonEmpty(Tail(ts))

\* TagsOfNormalized with the test of line 232 lost: the last line is dropped
\* whether or not it held a tag.
TagsOfNormalizedDropAlways(body) ==
    LET lines == split(body)
        last_line == strip(lines[Len(lines)])
        char_position == Len(body) - Len(last_line)
        tags == StripNonEmpty(FindAllTags(last_line, 0))
    IN  IF is_within_code_block(body, char_position)
        THEN [tags |-> <<>>, body |-> body]
        ELSE [tags |-> tags,
              body |-> rstrip(join(SubSeq(lines, 1, Len(lines) - 1)))]

\* Lines 216-237, on the body line 215 assigned.
TagsOfNormalized(body) ==
    LET lines == split(body)
        last_line == strip(lines[Len(lines)])
        char_position == Len(body) - Len(last_line)
        tags == StripNonEmpty(FindAllTags(last_line, 0))
    IN  IF is_within_code_block(body, char_position)
        THEN [tags |-> <<>>, body |-> body]
        ELSE IF tags # <<>>
        THEN [tags |-> tags,
              body |-> rstrip(join(SubSeq(lines, 1, Len(lines) - 1)))]
        ELSE [tags |-> <<>>, body |-> body]

extract_tags_from_body(body) ==
    IF body = <<>> THEN [tags |-> <<>>, body |-> body]
    ELSE With(rstrip(ReplaceCRLF(body)), TagsOfNormalized)

-----------------------------------------------------------------------------
(* safe_filename (lines 87-105)                                            *)

\* re.sub(r"\?.*$", "", filename): '.' matches no newline and '$' matches at
\* the end or before a final newline, so the match starts at the first '?'
\* with no newline after it other than a final one.
RECURSIVE QueryStart(_, _)
QueryStart(s, p) ==
    With(Find(s, "?", p), LAMBDA q :
        IF q < 0 THEN -1
        ELSE With(Find(s, NL, q + 1), LAMBDA nl :
                 IF nl < 0 \/ nl = Len(s) - 1 THEN q
                 ELSE QueryStart(s, q + 1)))

StripQuery(s) ==
    LET q == QueryStart(s, 0)
    IN  IF q < 0 THEN s
        ELSE IF s[Len(s)] = NL /\ q < Len(s) - 1 THEN Slice(s, 0, q) \o <<NL>>
        ELSE Slice(s, 0, q)

\* str.rfind(c) for a one-character c: the last offset, or -1.
RFind(s, c) ==
    LET hits == {q \in 0..(Len(s) - 1) : At(s, q) = c}
    IN  IF hits = {} THEN -1 ELSE Max(hits)

\* os.path.basename
basename(path) == Slice(path, RFind(path, "/") + 1, Len(path))

\* urllib.parse.unquote, for the escape the modelled texts use (%20); any
\* other text is returned as it is, as unquote does for text without '%'.
RECURSIVE unquote(_)
unquote(s) ==
    LET hits == {q \in 0..(Len(s) - 3) :
                    StartsWithAt(s, <<"%", "2", "0">>, q, FALSE)}
    IN  IF hits = {} THEN s
        ELSE With(Min(hits), LAMBDA q :
                 Slice(s, 0, q) \o <<" ">> \o unquote(Slice(s, q + 3, Len(s))))

\* os.path.splitext of a name without directory part: the extension starts
\* at the last dot, unless only dots precede it.
splitext(name) ==
    LET d == RFind(name, ".")
    IN  IF d >= 0 /\ \E i \in 0..(d - 1) : At(name, i) # "."
        THEN <<Slice(name, 0, d), Slice(name, d, Len(name))>>
        ELSE <<name, <<>>>>

SafeChars ==
    {UpperCase[i] : i \in 1..26} \cup {LowerCase[i] : i \in 1..26}
        \cup {Digits[i] : i \in 1..10} \cup {"-", "_"}

valid_extensions ==
    { <<".", "j", "p", "g">>, <<".", "j", "p", "e", "g">>,
      <<".", "p", "n", "g">>, <<".", "g", "i", "f">>,
      <<".", "w", "e", "b", "p">> }

MaxNameLen == 100

\* Lines 94-105, on name, ext = os.path.splitext(decoded_name).
SafeNameOf(parts) ==
    LET name == parts[1]
        safe_name == [i \in 1..Len(name) |->
                         IF name[i] \in SafeChars THEN name[i] ELSE "_"]
        ext == IF LowerStr(parts[2]) \in valid_extensions THEN parts[2]
               ELSE <<>>
    IN  IF Len(safe_name) > MaxNameLen - Len(ext)
        THEN Slice(safe_name, 0, MaxNameLen - Len(ext)) \o ext
        ELSE safe_name \o ext

safe_filename(filename) ==
    With(splitext(unquote(basename(StripQuery(filename)))), SafeNameOf)

-----------------------------------------------------------------------------
(* download_image (lines 107-145)                                          *)

\* The network, as one run sees it: the URLs whose fetch fails (a network
\* error, a status other than 200 or a failed write, all of which end in
\* "return None"), and the Content-Type the servers answer with.
ContentTypes == {"image/png", "image/jpeg", "image/gif", "image/webp", "other"}

ContentTypeExt(ctype) ==
    CASE ctype = "image/png" -> <<".", "p", "n", "g">>
      [] ctype = "image/jpeg" -> <<".", "j", "p", "g">>
      [] ctype = "image/gif" -> <<".", "g", "i", "f">>
      [] ctype = "image/webp" -> <<".", "w", "e", "b", "p">>
      [] OTHER -> <<".", "j", "p", "g">>

\* The file name of the path returned, None when the fetch fails.  The
\* directory part of output_path holds no dot and is returned unchanged.
download_image(url, filename, net) ==
    IF url \in net.down THEN None
    ELSE LET parts == splitext(filename)
         IN  IF LowerStr(parts[2]) \notin valid_extensions
             THEN parts[1] \o ContentTypeExt(net.ctype)
             ELSE filename

-----------------------------------------------------------------------------
(* replace_image_urls (lines 147-189)                                      *)

Quotes == {DQ, SQ}

\* What follows [^>]+ in html_img_pattern, anchored at offset e:
\* src=["\']?(https?:\/\/[^"\'>]+)["\']?
HtmlRestAt(s, e) ==
    IF ~StartsWithAt(s, <<"s", "r", "c", "=">>, e, TRUE) THEN NoMatch
    ELSE LET q0 == IF e + 4 < Len(s) /\ At(s, e + 4) \in Quotes
                   THEN e + 5 ELSE e + 4
             n == SchemeLen(s, q0, TRUE)
             u == FindAny(s, Quotes \cup {">"}, q0 + n)
         IN  IF n = 0 \/ u <= q0 + n THEN NoMatch
             ELSE [start |-> e,
                   end |-> IF u < Len(s) /\ At(s, u) \in Quotes
                           THEN u + 1 ELSE u,
                   alt |-> <<>>, url |-> Slice(s, q0, u)]

\* <img[^>]+src=... anchored at offset p: [^>]+ is greedy, so the last src=
\* that lets the rest match is taken.
HtmlMatchAt(s, p) ==
    IF ~StartsWithAt(s, <<"<", "i", "m", "g">>, p, TRUE) THEN NoMatch
    ELSE LET g == FindAny(s, {">"}, p + 4)
             es == {e \in (p + 5)..g : HtmlRestAt(s, e).start >= 0}
         IN  IF es = {} THEN NoMatch
             ELSE LET e == CHOOSE x \in es : \A y \in es : y <= x
                      r == HtmlRestAt(s, e)
                  IN  [start |-> p, end |-> r.end, alt |-> <<>>,
                       url |-> r.url]

RECURSIVE HtmlFindIterFrom(_, _)
HtmlFindIterFrom(s, p) ==
    With(Find(s, "<", p), LAMBDA q :
        IF q < 0 THEN <<>>
        ELSE With(HtmlMatchAt(s, q), LAMBDA m :
                 IF m.start >= 0 THEN <<m>> \o HtmlFindIterFrom(s, m.end)
                 ELSE HtmlFindIterFrom(s, q + 1)))

HtmlFindIter(s) == HtmlFindIterFrom(s, 0)

\* re.search(r'alt=["\']?([^"\'>]+)["\']?', tag): group(1), or 'Image'.
AltAt(tag, p) ==
    LET q0 == IF p + 4 < Len(tag) /\ At(tag, p + 4) \in Quotes
              THEN p + 5 ELSE p + 4
        u == FindAny(tag, Quotes \cup {">"}, q0)
    IN  IF StartsWithAt(tag, <<"a", "l", "t", "=">>, p, FALSE) /\ u > q0
        THEN Slice(tag, q0, u)
        ELSE None

AltSearch(tag) ==
    LET hits == {p \in 0..(Len(tag) - 1) : AltAt(tag, p) # None}
    IN  IF hits = {} THEN <<"I", "m", "a", "g", "e">>
        ELSE AltAt(tag, Min(hits))

\* Lines 166-169 and 181-184: what the match is replaced by, given what
\* download_image returned.
Replacement(group0, alt_text, final_filename) ==
    IF final_filename # None
    THEN [text |-> <<"!", "[">> \o alt_text \o <<"]", "(">>
                   \o final_filename \o <<")">>,
          fetched |-> TRUE, saved |-> final_filename]
    ELSE [text |-> group0, fetched |-> TRUE, saved |-> None]

\* md_replacer / html_replacer on one match m of the pass over body: what
\* the match is replaced by, and whether its URL was fetched.
Replacer(body, m, alt_text, issue_number, net) ==
    IF is_within_code_block(body, m.start)
    THEN [text |-> Slice(body, m.start, m.end), fetched |-> FALSE,
          saved |-> None]
    ELSE With(download_image(m.url,
                  DecimalChars(issue_number) \o <<"_">> \o safe_filename(m.url),
                  net),
              LAMBDA final_filename :
                  Replacement(Slice(body, m.start, m.end), alt_text,
                              final_filename))

md_replacer(body, m, issue_number, net) ==
    Replacer(body, m, m.alt, issue_number, net)

html_replacer(body, m, issue_number, net) ==
    Replacer(body, m, AltSearch(Slice(body, m.start, m.end)),
             issue_number, net)

\* The replacer applied to each match of a pass, in match order.
RECURSIVE MdReps(_, _, _, _, _)
MdReps(body, matches, i, issue_number, net) ==
    IF i > Len(matches) THEN <<>>
    ELSE <<md_replacer(body, matches[i], issue_number, net)>>
         \o MdReps(body, matches, i + 1, issue_number, net)

RECURSIVE HtmlReps(_, _, _, _, _)
HtmlReps(body, matches, i, issue_number, net) ==
    IF i > Len(matches) THEN <<>>
    ELSE <<html_replacer(body, matches[i], issue_number, net)>>
         \o HtmlReps(body, matches, i + 1, issue_number, net)

\* re.sub(pattern, replacer, body): reps[i] replaces matches[i].
RECURSIVE SubFrom(_, _, _, _, _)
SubFrom(body, matches, reps, i, prev_end) ==
    IF i > Len(matches) THEN Slice(body, prev_end, Len(body))
    ELSE Slice(body, prev_end, matches[i].start) \o reps[i].text
         \o SubFrom(body, matches, reps, i + 1, matches[i].end)

PassResult(body, matches, reps) ==
    [body |-> SubFrom(body, matches, reps, 1, 0),
     matches |-> matches, reps |-> reps]

\* Line 187: the pass over the Markdown references.
MdPass(body, issue_number, net) ==
    With(MdFindIter(body, TRUE), LAMBDA matches :
        With(MdReps(body, matches, 1, issue_number, net), LAMBDA reps :
            PassResult(body, matches, reps)))

\* Line 188: the pass over the <img> tags, on the body the first pass left.
HtmlPass(body, issue_number, net) ==
    With(HtmlFindIter(body), LAMBDA matches :
        With(HtmlReps(body, matches, 1, issue_number, net), LAMBDA reps :
            PassResult(body, matches, reps)))

\* Lines 187-189: the returned body, with what each pass matched and did.
replace_image_urls(body, issue_number, net) ==
    With(MdPass(body, issue_number, net), LAMBDA md :
        With(HtmlPass(md.body, issue_number, net), LAMBDA html :
            [body |-> html.body, md |-> md, html |-> html]))

-----------------------------------------------------------------------------
(* sanitize_markdown (lines 191-208)                                       *)

\* Line 198: the tags that stay.
allowed_tags ==
    { <<"p">>, <<"a">>, <<"c", "o", "d", "e">>, <<"p", "r", "e">>,
      <<"b", "l", "o", "c", "k", "q", "u", "o", "t", "e">>,
      <<"u", "l">>, <<"o", "l">>, <<"l", "i">>,
      <<"s", "t", "r", "o", "n", "g">>, <<"e", "m">>, <<"i", "m", "g">>,
      <<"h", "1">>, <<"h", "2">>, <<"h", "3">>, <<"h", "4">>, <<"h", "5">>,
      <<"h", "6">> }

\* The elements html.parser never gives content, among those the texts use.
void_tags == { <<"b", "r">>, <<"h", "r">>, <<"i", "m", "g">> }

Letters == {UpperCase[i] : i \in 1..26} \cup {LowerCase[i] : i \in 1..26}
NameChars == Letters \cup {Digits[i] : i \in 1..10}

NoTag == [end |-> -1, name |-> <<>>, closing |-> FALSE]

\* The tag BeautifulSoup(content, "html.parser") reads at offset p: '<', an
\* optional '/', a name starting with a letter, '>'.  Tags with attributes
\* are outside the modelled markup; any other '<' is text.
TagAt(s, p) ==
    IF p >= Len(s) \/ At(s, p) # "<" THEN NoTag
    ELSE LET closing == p + 1 < Len(s) /\ At(s, p + 1) = "/"
             n0 == IF closing THEN p + 2 ELSE p + 1
             e == FindAny(s, {">"}, n0)
         IN  IF /\ e < Len(s)
                /\ e > n0
                /\ At(s, n0) \in Letters
                /\ \A q \in n0..(e - 1) : At(s, q) \in NameChars
             THEN [end |-> e + 1, name |-> LowerStr(Slice(s, n0, e)),
                   closing |-> closing]
             ELSE NoTag

\* str() of a text node: the three characters the formatter substitutes.
Escape(c) ==
    CASE c = "&" -> <<"&", "a", "m", "p", ";">>
      [] c = "<" -> <<"&", "l", "t", ";">>
      [] c = ">" -> <<"&", "g", "t", ";">>
      [] OTHER -> <<c>>

\* What str(soup) holds for an element after line 205: its markers when the
\* tag is allowed, nothing when it was unwrapped.
OpenMarker(name) ==
    IF name \in allowed_tags THEN <<"<">> \o name \o <<">">> ELSE <<>>
CloseMarker(name) ==
    IF name \in allowed_tags THEN <<"<", "/">> \o name \o <<">">> ELSE <<>>
VoidMarker(name) ==
    IF name \in allowed_tags THEN <<"<">> \o name \o <<"/", ">">> ELSE <<>>

\* The end markers of the open elements, innermost (last of stack) first,
\* down to and including position k of the stack.
RECURSIVE CloseDownTo(_, _)
CloseDownTo(stack, k) ==
    IF Len(stack) < k THEN <<>>
    ELSE CloseMarker(stack[Len(stack)])
         \o CloseDownTo(SubSeq(stack, 1, Len(stack) - 1), k)

\* Lines 196-207 from offset p on, with the elements open at p in stack: an
\* end tag closes the innermost open element of its name and all inside it,
\* one that matches no open element is dropped, and the end of the text
\* closes everything.
RECURSIVE Serialize(_, _, _)
Serialize(s, p, stack) ==
    IF p >= Len(s) THEN CloseDownTo(stack, 1)
    ELSE With(TagAt(s, p), LAMBDA t :
        IF t.end < 0 THEN Escape(At(s, p)) \o Serialize(s, p + 1, stack)
        ELSE IF ~t.closing
        THEN IF t.name \in void_tags
             THEN VoidMarker(t.name) \o Serialize(s, t.end, stack)
             ELSE OpenMarker(t.name)
                  \o Serialize(s, t.end, Append(stack, t.name))
        ELSE LET opens == {k \in 1..Len(stack) : stack[k] = t.name}
             IN  IF opens = {} THEN Serialize(s, t.end, stack)
                 ELSE CloseDownTo(stack, Max(opens))
                      \o Serialize(s, t.end, SubSeq(stack, 1, Max(opens) - 1)))

sanitize_markdown(content) ==
    IF content = <<>> THEN <<>> ELSE Serialize(content, 0, <<>>)

-----------------------------------------------------------------------------
(* State                                                                   *)

VARIABLES
    pc,         \* the control point: which operation or statement ran last
    text,       \* the text passed to the operation under study
    position,   \* the offset passed to is_within_code_block
    inside,     \* what is_within_code_block returned
    body,       \* the body an operation returned / convert_issue's body
    cover_url,  \* extract_cover_image's URL (None when it found none)
    tags,       \* extract_tags_from_body's tag list
    fetches,    \* the download_image calls made, in order
    net,        \* the network the download_image calls of an operation met
    issues,     \* repo.get_issues(state="open"): number k is issues[k]
    run,        \* which run of main this is
    idx,        \* the number of the issue main's loop is at (0 before it)
    disk,       \* the output root: directories, content files, images,
                \* error files
    cover_name, \* convert_issue's cover_name
    counts,     \* main's processed_count and error_count
    reported,   \* the issues main commented on and labelled conversion-error
    hist,       \* per run and issue: how convert_issue ended, how many
                \* writes it made, the statement that raised
    faults      \* how many calls (file system, GitHub) have raised so far

opVars == <<text, position, inside>>
localVars == <<body, cover_url, tags, fetches, cover_name>>
batchVars ==
    <<issues, run, idx, disk, cover_name, counts, reported, hist, faults>>
vars ==
    <<pc, text, position, inside, body, cover_url, tags, fetches, net,
      issues, run, idx, disk, cover_name, counts, reported, hist, faults>>

Runs == {"first", "second"}

\* The output root with nothing in it.
EmptyDisk == [dirs |-> {}, index |-> {}, images |-> {}, errors |-> {}]

-----------------------------------------------------------------------------
(* The operations on one text: Spec                                        *)

MaxLines == 3

ImageUrl == <<"h", "t", "t", "p", ":", "/", "/", "h">>

\* The lines the texts are built from.
FenceLine == Fence
ImageLine == <<"!", "[", "a", "]", "(">> \o ImageUrl \o <<")">>
TagLine == <<"$", "t", "$", " ", "$", "u", "$">>
TextLine == <<"x", " ">>
EmptyLine == <<>>
SpanTagLine == <<BT, "c", BT, " ", "$", "t", "$">>
CrLine == <<"x", CR>>
\* A Markdown reference that starts inside an inline span and holds an <img
\* tag after the span.
SpanImageLine ==
    <<BT, "!", "[", "a", BT, "]", "(">> \o ImageUrl
        \o <<" ", "<", "i", "m", "g", " ", "s", "r", "c", "=",
             "h", "t", "t", "p", ":", "/", "/", "x", ")">>

LineSet ==
    {FenceLine, ImageLine, TagLine, TextLine, EmptyLine, SpanTagLine, CrLine,
     SpanImageLine}

Texts == UNION {{join(ls) : ls \in [1..n -> LineSet]} : n \in 1..MaxLines}

\* The networks a call may meet: every fetch succeeds, or those of ImageUrl
\* fail; the servers answer with a PNG or an unrecognised Content-Type.
Nets == [down : {{}, {ImageUrl}}, ctype : {"image/png", "other"}]

\* The download_image calls of one pass, in match order.
RECURSIVE PassFetches(_, _, _)
PassFetches(kind, pass, i) ==
    IF i > Len(pass.matches) THEN <<>>
    ELSE (IF pass.reps[i].fetched
          THEN <<[kind |-> kind, start |-> pass.matches[i].start,
                  url |-> pass.matches[i].url,
                  saved |-> pass.reps[i].saved]>>
          ELSE <<>>) \o PassFetches(kind, pass, i + 1)

Init ==
    /\ pc = "input"
    /\ text \in Texts
    /\ position = 0
    /\ inside = FALSE
    /\ body = <<>>
    /\ cover_url = None
    /\ tags = <<>>
    /\ fetches = <<>>
    /\ net = [down |-> {}, ctype |-> "other"]
    /\ issues = <<>>
    /\ run = "first"
    /\ idx = 0
    /\ disk = EmptyDisk
    /\ cover_name = None
    /\ counts = [processed_count |-> 0, error_count |-> 0]
    /\ reported = {}
    /\ hist = [r \in Runs |-> <<>>]
    /\ faults = 0

\* is_within_code_block(text, position), for every offset of the text.
Classify ==
    /\ pc = "input"
    /\ \E p \in 0..Len(text) :
          /\ position' = p
          /\ inside' = is_within_code_block(text, p)
    /\ pc' = "classified"
    /\ UNCHANGED <<text, body, cover_url, tags, fetches, net, batchVars>>

\* cover_url, body = extract_cover_image(text)
ExtractCover ==
    /\ pc = "input"
    /\ \E r \in {extract_cover_image(text)} :
           cover_url' = r.url /\ body' = r.body
    /\ pc' = "cover"
    /\ UNCHANGED <<opVars, tags, fetches, net, batchVars>>

\* tags, body = extract_tags_from_body(text, logger)
ExtractTags ==
    /\ pc = "input"
    /\ \E r \in {extract_tags_from_body(text)} :
           tags' = r.tags /\ body' = r.body
    /\ pc' = "tags"
    /\ UNCHANGED <<opVars, cover_url, fetches, net, batchVars>>

\* body = replace_image_urls(text, 1, post_dir, token)
ReplaceImages ==
    /\ pc = "input"
    /\ \E n \in Nets :
          \E r \in {replace_image_urls(text, 1, n)} :
              /\ body' = r.body
              /\ fetches' = PassFetches("md", r.md, 1)
                                \o PassFetches("html", r.html, 1)
              /\ net' = n
    /\ pc' = "images"
    /\ UNCHANGED <<opVars, cover_url, tags, batchVars>>

Next == Classify \/ ExtractCover \/ ExtractTags \/ ReplaceImages

Spec == Init /\ [][Next]_vars

-----------------------------------------------------------------------------
(* convert_issue (lines 239-312) and main (lines 314-382): BatchSpec       *)

MaxIssues == 2

\* Lines 17 and 20.  The labels of the source are Chinese words; each is
\* written here as an English word, the default category of line 269 too.
CATEGORY_MAP == <<"life", "tech", "study", "thinking", "project">>
PUBLISH_LABEL == "publish"
DefaultCategory == "uncategorized"

AUrl ==
    <<"h", "t", "t", "p", ":", "/", "/", "h", "/", "a", ".", "p", "n", "g">>
BUrl == <<"h", "t", "t", "p", ":", "/", "/", "h", "/", "b">>

\* text ![c](http://h/a.png) / body $tag1$
CoverAndTagBody ==
    <<"t", "e", "x", "t", " ", "!", "[", "c", "]", "(">> \o AUrl
        \o <<")", NL, "b", "o", "d", "y", " ", "$", "t", "a", "g", "1", "$">>

\* A fenced block holding an element the sanitizer does not allow.
FencedHtmlBody ==
    Fence \o <<NL, "<", "d", "i", "v", ">", "x", "<", "/", "d", "i", "v", ">",
               NL>> \o Fence

\* Two references: the first becomes the cover, the second is localized.
TwoImagesBody ==
    <<"!", "[", "c", "]", "(">> \o AUrl \o <<")", NL, "!", "[", "d", "]", "(">>
        \o BUrl \o <<")">>

\* The issues a repository may hold: published ones, one that does not carry
\* the publish label and has no body, and a pull request.
Documents ==
    { [labels |-> <<PUBLISH_LABEL, "tech">>, state |-> "open",
       pull_request |-> FALSE, title |-> <<"t">>, body |-> CoverAndTagBody],
      [labels |-> <<PUBLISH_LABEL>>, state |-> "open",
       pull_request |-> FALSE, title |-> <<"a", DQ, "b">>,
       body |-> FencedHtmlBody],
      [labels |-> <<"note", PUBLISH_LABEL, "life", "tech">>, state |-> "open",
       pull_request |-> FALSE, title |-> <<"t">>, body |-> TwoImagesBody],
      [labels |-> <<"tech">>, state |-> "open",
       pull_request |-> FALSE, title |-> <<"t">>, body |-> None],
      [labels |-> <<PUBLISH_LABEL>>, state |-> "open",
       pull_request |-> TRUE, title |-> <<"t">>, body |-> CoverAndTagBody] }

\* The networks a document's fetches may meet: every fetch succeeds, the
\* fetches of one URL fail, or all fail.
BatchNets == [down : SUBSET {AUrl, BUrl}, ctype : {"image/png"}]

\* The network before any fetch of a document.
NoNet == [down |-> {}, ctype |-> "image/png"]

\* issue.created_at.strftime("%Y%m%d"), the same day for every issue.
pub_date == <<"2", "0", "2", "4", "0", "1", "0", "1">>

\* Line 251.
slug(number) == pub_date \o <<"_">> \o DecimalChars(number)

\* str.replace('"', '\\"') of lines 287 and 290.
RECURSIVE EscapeQuotes(_)
EscapeQuotes(s) ==
    IF s = <<>> THEN <<>>
    ELSE (IF Head(s) = DQ THEN <<"\\", DQ>> ELSE <<Head(s)>>)
         \o EscapeQuotes(Tail(s))

\* Lines 268-269.
Category(labels) ==
    LET categories ==
            SelectSeq(labels,
                      LAMBDA tag : \E i \in 1..Len(CATEGORY_MAP) :
                                       CATEGORY_MAP[i] = tag)
    IN  IF categories # <<>> THEN categories[1] ELSE DefaultCategory

\* Lines 285-298: the fields of the front matter, in order.
FrontMatter(issue, number, tag_list, cover) ==
    [title |-> EscapeQuotes(issue.title),
     slug |-> slug(number),
     categories |-> <<Category(issue.labels)>>,
     tags |-> tag_list,
     image |-> cover]

\* The saved files of a sequence of fetches.
SavedFiles(number, fs) ==
    {<<number, fs[i].saved>> : i \in {j \in 1..Len(fs) : fs[j].saved # None}}

\* os.path.exists(post_dir)
path_exists_never(d, number) == FALSE

path_exists(d, number) == number \in d.dirs

NoHist == [outcome |-> "none", wrote |-> 0, raised |-> "none"]

\* The environment: at most MaxFaults calls raise in one behaviour.
MaxFaults == 3

\* A call raises.
Raises ==
    /\ faults < MaxFaults
    /\ faults' = faults + 1

BatchInit ==
    /\ pc = "main"
    /\ text = <<>>
    /\ position = 0
    /\ inside = FALSE
    /\ body = <<>>
    /\ cover_url = None
    /\ tags = <<>>
    /\ fetches = <<>>
    /\ net = NoNet
    /\ issues \in UNION {[1..n -> Documents] : n \in 1..MaxIssues}
    /\ run = "first"
    /\ idx = 0
    /\ disk = EmptyDisk
    /\ cover_name = None
    /\ counts = [processed_count |-> 0, error_count |-> 0]
    /\ reported = {}
    /\ hist = [r \in Runs |-> [k \in 1..Len(issues) |-> NoHist]]
    /\ faults = 0

\* convert_issue returns to main's loop: its local variables are gone.
Return ==
    /\ pc' = "main"
    /\ body' = <<>>
    /\ cover_url' = None
    /\ tags' = <<>>
    /\ fetches' = <<>>
    /\ cover_name' = None
    /\ net' = NoNet

\* Lines 348-352: the loop takes the next issue, skips a pull request, and
\* calls convert_issue on any other.
NextIssue ==
    /\ pc = "main"
    /\ idx < Len(issues)
    /\ idx' = idx + 1
    /\ IF issues[idx + 1].pull_request
       THEN /\ pc' = "main"
            /\ hist' = [hist EXCEPT ![run][idx + 1].outcome = "pull_request"]
       ELSE /\ pc' = "check_publish"
            /\ hist' = hist
    /\ UNCHANGED <<opVars, localVars, net, issues, run, disk, counts,
                   reported, faults>>

\* Lines 373-374: fetching the next page of issues raises; the loop ends.
FetchIssuesFails ==
    /\ pc = "main"
    /\ idx < Len(issues)
    /\ Raises
    /\ idx' = Len(issues)
    /\ UNCHANGED <<pc, opVars, localVars, net, issues, run, disk, counts,
                   reported, hist>>

\* Lines 241-247.
CheckPublish ==
    /\ pc = "check_publish"
    /\ LET labels == issues[idx].labels
       IN  IF (\A i \in 1..Len(labels) : labels[i] # PUBLISH_LABEL)
              \/ issues[idx].state # "open"
           THEN /\ Return
                /\ hist' = [hist EXCEPT ![run][idx].outcome = "ineligible"]
           ELSE /\ pc' = "check_exists"
                /\ hist' = hist
                /\ UNCHANGED <<localVars, net>>
    /\ UNCHANGED <<opVars, issues, run, idx, disk, counts, reported, faults>>

\* Lines 249-256.
CheckExists ==
    /\ pc = "check_exists"
    /\ IF path_exists(disk, idx)
       THEN /\ Return
            /\ hist' = [hist EXCEPT ![run][idx].outcome = "exists"]
       ELSE /\ pc' = "makedirs"
            /\ hist' = hist
            /\ UNCHANGED <<localVars, net>>
    /\ UNCHANGED <<opVars, issues, run, idx, disk, counts, reported, faults>>

\* Line 258: the directory is made, or os.makedirs raises.
MakeDirs ==
    /\ pc = "makedirs"
    /\ \/ /\ disk' = [disk EXCEPT !.dirs = @ \cup {idx}]
          /\ hist' = [hist EXCEPT ![run][idx].wrote =
                          IF idx \in disk.dirs THEN @ ELSE @ + 1]
          /\ pc' = "extract_cover"
          /\ faults' = faults
       \/ /\ Raises
          /\ hist' = [hist EXCEPT ![run][idx].raised = "makedirs"]
          /\ pc' = "handle_error"
          /\ disk' = disk
    /\ UNCHANGED <<opVars, localVars, net, issues, run, idx, counts, reported>>

\* Lines 261-262.
ExtractCoverStep ==
    /\ pc = "extract_cover"
    /\ \E r \in {extract_cover_image(issues[idx].body)} :
           cover_url' = r.url /\ body' = r.body
    /\ pc' = "extract_tags"
    /\ UNCHANGED <<opVars, tags, fetches, cover_name, net, issues, run, idx,
                   disk, counts, reported, hist, faults>>

\* Line 263.
ExtractTagsStep ==
    /\ pc = "extract_tags"
    /\ \E r \in {extract_tags_from_body(body)} :
           tags' = r.tags /\ body' = r.body
    /\ pc' = "sanitize"
    /\ UNCHANGED <<opVars, cover_url, fetches, cover_name, net, issues, run,
                   idx, disk, counts, reported, hist, faults>>

\* Line 264.
SanitizeStep ==
    /\ pc = "sanitize"
    /\ body' = sanitize_markdown(body)
    /\ pc' = "replace_images"
    /\ UNCHANGED <<opVars, cover_url, tags, fetches, cover_name, net, issues,
                   run, idx, disk, counts, reported, hist, faults>>

\* Line 265: every image fetched is a file of the directory.  The network
\* the document's fetches meet is chosen here.
ReplaceImagesStep ==
    /\ pc = "replace_images"
    /\ \E n \in BatchNets :
          \E r \in {replace_image_urls(body, idx, n)} :
             \E fs \in {PassFetches("md", r.md, 1)
                            \o PassFetches("html", r.html, 1)} :
                /\ net' = n
                /\ body' = r.body
                /\ fetches' = fs
                /\ disk' = [disk EXCEPT !.images = @ \cup SavedFiles(idx, fs)]
                /\ hist' = [hist EXCEPT ![run][idx].wrote =
                                @ + Cardinality({j \in 1..Len(fs) :
                                                    fs[j].saved # None})]
    /\ pc' = "download_cover"
    /\ UNCHANGED <<opVars, cover_url, tags, cover_name, issues, run, idx,
                   counts, reported, faults>>

\* Lines 271-282.
DownloadCover ==
    /\ pc = "download_cover"
    /\ IF cover_url # None
       THEN \E final_cover_path \in
                  {download_image(cover_url,
                       <<"c", "o", "v", "e", "r", "_">>
                           \o safe_filename(cover_url), net)} :
               /\ cover_name' = final_cover_path
               /\ fetches' = Append(fetches,
                      [kind |-> "cover", start |-> -1, url |-> cover_url,
                       saved |-> final_cover_path])
               /\ IF final_cover_path # None
                  THEN /\ disk' = [disk EXCEPT !.images =
                                       @ \cup {<<idx, final_cover_path>>}]
                       /\ hist' = [hist EXCEPT ![run][idx].wrote = @ + 1]
                  ELSE UNCHANGED <<disk, hist>>
       ELSE UNCHANGED <<cover_name, fetches, disk, hist>>
    /\ pc' = "write_content"
    /\ UNCHANGED <<opVars, body, cover_url, tags, net, issues, run, idx,
                   counts, reported, faults>>

\* The content file of issue number as it is on disk; complete is whether
\* the front matter and the whole body were written.
ContentFile(number, complete) ==
    [number |-> number,
     frontmatter |-> FrontMatter(issues[number], number, tags, cover_name),
     body |-> IF complete THEN body ELSE <<>>,
     complete |-> complete]

\* open(md_file, "w"): the file replaces the one of that name.
Written(index, file) == {f \in index : f.number # file.number} \cup {file}

\* The statement at pc raised: control is in the except clause of line 307,
\* with the local variables as they were.
Raise(statement) ==
    /\ Raises
    /\ hist' = [hist EXCEPT ![run][idx].raised = statement]
    /\ pc' = "handle_error"

\* Lines 285-306 and, in main, line 353: the content file is written and
\* the issue counted; or open raises; or the write raises after open made
\* the file.
WriteContent ==
    /\ pc = "write_content"
    /\ \/ /\ disk' = [disk EXCEPT !.index = Written(@, ContentFile(idx, TRUE))]
          /\ hist' = [hist EXCEPT ![run][idx].outcome = "converted",
                                  ![run][idx].wrote = @ + 1]
          /\ counts' = [counts EXCEPT !.processed_count = @ + 1]
          /\ faults' = faults
          /\ Return
       \/ /\ Raise("open")
          /\ UNCHANGED <<disk, counts, localVars, net>>
       \/ /\ Raises
          /\ disk' = [disk EXCEPT !.index = Written(@, ContentFile(idx, FALSE))]
          /\ hist' = [hist EXCEPT ![run][idx].raised = "write",
                                  ![run][idx].wrote = @ + 1]
          /\ pc' = "handle_error"
          /\ UNCHANGED <<counts, localVars, net>>
    /\ UNCHANGED <<opVars, issues, run, idx, reported>>

\* Lines 307-312: the error file is written and convert_issue returns
\* False; or writing it raises, and lines 354-372 of main count the error,
\* comment on the issue and label it, unless that raises too.
HandleError ==
    /\ pc = "handle_error"
    /\ \/ /\ disk' = [disk EXCEPT !.errors = @ \cup {idx}]
          /\ hist' = [hist EXCEPT ![run][idx].outcome = "failed",
                                  ![run][idx].wrote = @ + 1]
          /\ UNCHANGED <<counts, reported, faults>>
       \/ /\ hist' = [hist EXCEPT ![run][idx].outcome = "raised"]
          /\ counts' = [counts EXCEPT !.error_count = @ + 1]
          /\ \/ reported' = reported \cup {idx} /\ faults' = faults + 1
             \/ reported' = reported /\ faults' = faults + 2
          /\ faults' <= MaxFaults
          /\ disk' = disk
    /\ Return
    /\ UNCHANGED <<opVars, issues, run, idx>>

\* Lines 376-378: the run ends after the last issue; the next run starts
\* on the same issues and the same output root.
EndRun ==
    /\ pc = "main"
    /\ idx = Len(issues)
    /\ IF run = "first"
       THEN /\ run' = "second"
            /\ idx' = 0
            /\ counts' = [processed_count |-> 0, error_count |-> 0]
            /\ pc' = "main"
       ELSE /\ pc' = "done"
            /\ UNCHANGED <<run, idx, counts>>
    /\ UNCHANGED <<opVars, localVars, net, issues, disk, reported, hist,
                   faults>>

BatchNext ==
    \/ NextIssue
    \/ FetchIssuesFails
    \/ CheckPublish
    \/ CheckExists
    \/ MakeDirs
    \/ ExtractCoverStep
    \/ ExtractTagsStep
    \/ SanitizeStep
    \/ ReplaceImagesStep
    \/ DownloadCover
    \/ WriteContent
    \/ HandleError
    \/ EndRun

BatchSpec == BatchInit /\ [][BatchNext]_vars

-----------------------------------------------------------------------------
(* What the claims mean by a code region, stated without the classifier    *)

\* The offset at which line k of lines starts.
RECURSIVE LineStart(_, _)
LineStart(lines, k) ==
    IF k = 1 THEN 0 ELSE LineStart(lines, k - 1) + Len(lines[k - 1]) + 1

\* The line holding offset p: a newline belongs to the line it ends.
LineOf(lines, p) ==
    CHOOSE k \in 1..Len(lines) :
        /\ LineStart(lines, k) <= p
        /\ k = Len(lines) \/ p < LineStart(lines, k + 1)

FencesBefore(lines, k) == Cardinality({j \in 1..(k - 1) : IsFenceLine(lines[j])})

\* The line of p is reached after an odd number of fence lines.
InFencedBlock(s, p) ==
    LET lines == split(s) IN FencesBefore(lines, LineOf(lines, p)) % 2 = 1

\* p is a character of an inline span of its line.
InInlineSpan(s, p) ==
    LET lines == split(s)
        k == LineOf(lines, p)
        spans == InlineSpans(lines[k])
    IN  \E i \in 1..Len(spans) :
            /\ LineStart(lines, k) + spans[i][1] <= p
            /\ p < LineStart(lines, k) + spans[i][2]

InCodeRegion(s, p) == InFencedBlock(s, p) \/ InInlineSpan(s, p)

\* The image references of s, as the pattern of line 75 finds them.
Refs(s) == LET ms == MdFindIter(s, FALSE) IN {ms[i] : i \in 1..Len(ms)}

RefText(s, m) == Slice(s, m.start, m.end)

Remove(s, m) == Slice(s, 0, m.start) \o Slice(s, m.end, Len(s))

\* The fence lines of a text, by line number.
FenceLines(lines) == {k \in 1..Len(lines) : IsFenceLine(lines[k])}

\* p lies in, or right at the end of, an inline span of its line (section 4.1
\* of the spec counts both ends of a span as code).
AtInlineSpan(s, p) ==
    LET lines == split(s)
        k == LineOf(lines, p)
        spans == InlineSpans(lines[k])
    IN  \E i \in 1..Len(spans) :
            /\ LineStart(lines, k) + spans[i][1] <= p
            /\ p <= LineStart(lines, k) + spans[i][2]

\* p lies on a line before the first fence line of s, outside every span.
BeforeFirstFence(s, p) ==
    LET lines == split(s)
    IN  /\ \A k \in FenceLines(lines) : LineOf(lines, p) < k
        /\ ~AtInlineSpan(s, p)

OddFences(s) == Cardinality(FenceLines(split(s))) % 2 = 1

-----------------------------------------------------------------------------
(* Claims on the operations                                                *)

\* C1: an image reference whose start offset lies in a fenced block or in an
\* inline span of the body passed to the operation is never returned as the
\* cover by extract_cover_image, never fetched or rewritten by
\* replace_image_urls, and stays in the returned body textually unchanged.
C1_CodeRefsUntouched ==
    \A m \in Refs(text) :
        InCodeRegion(text, m.start) =>
            /\ pc = "cover" =>
                  /\ ~(cover_url = m.url /\ body = Remove(text, m))
                  /\ Contains(body, RefText(text, m))
            /\ pc = "images" =>
                  /\ \A i \in 1..Len(fetches) :
                        ~(fetches[i].kind = "md" /\ fetches[i].start = m.start)
                  /\ Contains(body, RefText(text, m))

\* C2: for a body with an odd number of fence lines, an offset on a line
\* before the first fence line and outside every inline span is classified
\* as not code, and an image reference there is eligible as cover and for
\* localization.
C2_OnlyRestOfDocumentIsCode ==
    OddFences(text) =>
        /\ (pc = "classified" /\ BeforeFirstFence(text, position))
              => inside = FALSE
        /\ \A m \in Refs(text) :
              BeforeFirstFence(text, m.start) =>
                  /\ pc = "cover" => cover_url # None
                  /\ pc = "images" =>
                        \E i \in 1..Len(fetches) :
                            fetches[i].kind = "md" /\ fetches[i].start = m.start

\* The last line of the normalized text lies outside every fenced block, is
\* no fence line, does not start in an inline span and holds a tag token.
TagLineOutsideCode(s) ==
    /\ s # <<>>
    /\ LET nb == rstrip(ReplaceCRLF(s))
           lines == split(nb)
           n == Len(lines)
           last_line == strip(lines[n])
       IN  /\ FencesBefore(lines, n) % 2 = 0
           /\ ~IsFenceLine(lines[n])
           /\ ~AtInlineSpan(nb, Len(nb) - Len(last_line))
           /\ StripNonEmpty(FindAllTags(last_line, 0)) # <<>>

\* C3: when the last line of the body (normalized, trailing whitespace
\* stripped) lies outside every fenced block, also right after a closing
\* fence line, does not start in an inline span and holds a non-empty tag
\* token, extract_tags_from_body returns exactly the tokens, trimmed, in
\* order, and the body without that last line (compared up to the trailing
\* whitespace the removal leaves).
C3_TagsOfLastLineOutsideCode ==
    (pc = "tags" /\ TagLineOutsideCode(text)) =>
        LET nb == rstrip(ReplaceCRLF(text))
            lines == split(nb)
        IN  /\ tags = StripNonEmpty(FindAllTags(strip(lines[Len(lines)]), 0))
            /\ body = rstrip(join(SubSeq(lines, 1, Len(lines) - 1)))

\* C4 as claimed: whenever extract_tags_from_body returns no tag, the
\* returned body is the input body character for character.
C4_EmptyTagsBodyIdentical ==
    (pc = "tags" /\ tags = <<>>) => body = text

\* C4, amended: whenever extract_tags_from_body returns no tag, the returned
\* body is the input body with its line endings normalized and its trailing
\* whitespace stripped; no line is removed and nothing else changes.
C4_EmptyTagsBodyNormalized ==
    (pc = "tags" /\ tags = <<>>) =>
        body = IF text = <<>> THEN text ELSE rstrip(ReplaceCRLF(text))

\* An empty tag list was returned for a text whose last line holds tag
\* tokens (it lies in code), and the returned body differs from the input.
C4_Witness ==
    /\ pc = "tags" /\ tags = <<>> /\ body # text
    /\ LET lines == split(body)
       IN  StripNonEmpty(FindAllTags(strip(lines[Len(lines)]), 0)) # <<>>

-----------------------------------------------------------------------------
(* Claims on convert_issue and main                                        *)

\* The body of the issue convert_issue is working on (line 261).
SourceBody == IF idx \in 1..Len(issues) THEN issues[idx].body ELSE <<>>

\* Every stage of lines 261-282 has run: body, tags and cover_name are what
\* the content file will hold.
StagesDone == pc = "write_content"

FailedFetch(url) ==
    \E i \in 1..Len(fetches) : fetches[i].url = url /\ fetches[i].saved = None

\* C5: every image reference of the source body whose fetch failed, by the
\* localizer or for the cover, is in the final body textually unchanged.
C5_FailedFetchKeepsReference ==
    StagesDone =>
        \A m \in Refs(SourceBody) :
            FailedFetch(m.url) => Contains(body, RefText(SourceBody, m))

\* The issues of this run whose convert_issue call ended in its except
\* clause.
FailedIssues ==
    {n \in 1..Len(issues) : hist[run][n].outcome \in {"failed", "raised"}}

\* C6: a document for which a stage raised has a failure artifact, is
\* counted in the run's error count and is reported for comment and label.
C6_FailureRecordedAndCounted ==
    pc \in {"main", "done"} =>
        /\ FailedIssues \subseteq disk.errors
        /\ counts.error_count = Cardinality(FailedIssues)
        /\ FailedIssues \subseteq reported

\* C7 as claimed: whatever the outcome of the first run of convert_issue on
\* a document (converted, ineligible, failed at any step), the second run
\* makes no write.
C7_SecondRunWritesNothing ==
    \A n \in 1..Len(issues) :
        hist["first"][n].outcome \in {"converted", "ineligible", "failed",
                                      "raised"}
            => hist["second"][n].wrote = 0

\* The first run on issue n left its output directory, or n is ineligible.
SettledByFirstRun(n) ==
    \/ hist["first"][n].outcome \in {"converted", "ineligible"}
    \/ /\ hist["first"][n].outcome \in {"failed", "raised"}
       /\ hist["first"][n].raised # "makedirs"

\* C7, amended: when the first run converted the document, skipped it as
\* ineligible, or failed after the output directory was made, the second
\* run makes no write: it skips the document as ineligible or as existing.
C7_SecondRunWritesNothingOnceSettled ==
    \A n \in 1..Len(issues) :
        SettledByFirstRun(n) =>
            /\ hist["second"][n].wrote = 0
            /\ hist["second"][n].outcome \in {"none", "ineligible", "exists"}

\* The second run met the directory a failed first run left, and the one a
\* converting first run left.
C7_Witness ==
    /\ \E n \in 1..Len(issues) :
          /\ hist["first"][n].outcome = "failed"
          /\ hist["first"][n].raised = "write"
          /\ hist["second"][n].outcome = "exists"
    /\ \E n \in 1..Len(issues) :
          /\ hist["first"][n].outcome = "converted"
          /\ hist["second"][n].outcome = "exists"

AllFetched == \A i \in 1..Len(fetches) : fetches[i].saved # None

\* C8 as claimed: on the body text ![c](http://h/a.png) / body $tag1$ with
\* successful fetches the stages give the cover URL http://h/a.png, the tags
\* [tag1] and a final body that is only "body".
C8_FinalBodyIsBody ==
    (StagesDone /\ SourceBody = CoverAndTagBody /\ AllFetched) =>
        /\ cover_url = AUrl
        /\ tags = << <<"t", "a", "g", "1">> >>
        /\ body = <<"b", "o", "d", "y">>

\* C8, amended: on that body with successful fetches the stages give the
\* cover URL http://h/a.png, the tags [tag1] and a final body that is only
\* "text": the whole last line goes with its tag.
C8_FinalBodyIsText ==
    (StagesDone /\ SourceBody = CoverAndTagBody /\ AllFetched) =>
        /\ cover_url = AUrl
        /\ tags = << <<"t", "a", "g", "1">> >>
        /\ body = <<"t", "e", "x", "t">>

\* The stages have run on that body and the cover was fetched.
C8_Witness ==
    /\ StagesDone
    /\ SourceBody = CoverAndTagBody
    /\ AllFetched
    /\ \E i \in 1..Len(fetches) : fetches[i].kind = "cover"
    /\ body = <<"t", "e", "x", "t">>

\* The text of the code of s: the lines inside fenced blocks and the inline
\* spans of the lines outside them.
CodeTexts(s) ==
    LET lines == split(s)
        fenced == {k \in 1..Len(lines) :
                      FencesBefore(lines, k) % 2 = 1 /\ ~IsFenceLine(lines[k])}
        plain == {k \in 1..Len(lines) :
                     FencesBefore(lines, k) % 2 = 0 /\ ~IsFenceLine(lines[k])}
    IN  {lines[k] : k \in fenced}
            \cup UNION {{Slice(lines[k], InlineSpans(lines[k])[i][1],
                               InlineSpans(lines[k])[i][2]) :
                            i \in 1..Len(InlineSpans(lines[k]))} : k \in plain}

\* C9: the text of every fenced block and inline span of the source body is
\* in the final body character for character.
C9_CodeTextPreserved ==
    StagesDone => \A c \in CodeTexts(SourceBody) : Contains(body, c)

\* C10: between documents, every output directory holds a complete content
\* file; and a document whose first run failed after its directory was made
\* is converted by the second run.
C10_DirectoryHoldsCompleteContent ==
    pc \in {"main", "done"} =>
        /\ \A n \in disk.dirs :
              \E f \in disk.index : f.number = n /\ f.complete
        /\ \A n \in 1..Len(issues) :
              (/\ hist["first"][n].outcome \in {"failed", "raised"}
               /\ hist["first"][n].raised # "makedirs"
               /\ hist["second"][n].outcome # "none")
                  => hist["second"][n].outcome = "converted"

=============================================================================
